---- MODULE Spec2Model ----
(***************************************************************************)
(* A model of the VOX format Python library (voxformat): the manifest      *)
(* dataclasses with their JSON encode/decode, the validator, and the ZIP   *)
(* archive reader and writer.                                              *)
(*                                                                         *)
(* Python values are tagged records [t |-> <type>, v |-> <payload>].       *)
(* A str is a sequence of one-character strings, a dict is the sequence    *)
(* of its <<key, value>> pairs in insertion order, a dataclass instance    *)
(* is tagged with its class name and holds a record of its fields.         *)
(***************************************************************************)
EXTENDS Integers, Sequences, FiniteSets, TLC

VARIABLES
    \* validator session
    manifest,     \* the manifest handed to VoxValidator.validate
    strictRes,    \* outcome of validate(manifest, strict=True), or Unset
    permRes,      \* outcome of validate(manifest, strict=False), or Unset
    \* codec session
    m0,           \* the manifest a caller built, or Unset when starting from text
    j0,           \* to_json(m0), or the JSON text the session starts from
    m1,           \* from_json(j0)
    j1,           \* to_json(m1)
    m2,           \* from_json(j1)
    jAlt,         \* to_json of m0 rebuilt with its mappings filled in reverse order
    \* archive session
    disk,         \* the file at the path
    container,    \* the VoxFile handed to VoxWriter.write, or Unset
    writeRes,     \* [kind |-> "ok" or "WriteError"] once write has run, else Unset
    writeLog,     \* the steps VoxWriter.write took, in order
    earlier,      \* the containers that writes before the last one put at the path
    readRes,      \* outcome of VoxReader.read, or Unset
    readLog,      \* the steps VoxReader.read took on its archive handle, in order
    \* command line session
    exitCode      \* [code |-> the exit status of `vox create`] once it has run, else Unset

validatorVars == <<manifest, strictRes, permRes>>
codecVars == <<m0, j0, m1, j1, m2, jAlt>>
archiveVars == <<disk, container, writeRes, writeLog, earlier, readRes, readLog>>
vars == <<validatorVars, codecVars, archiveVars, exitCode>>

--------------------------------------------------------------------------
(* Bounds of the model.                                                    *)

\* longest reference_audio list of an input manifest
MaxRefAudio == 2

\* deepest nesting of an extensions payload
MaxDepth == 2

\* writes to one path in a session
MaxWrites == 2

--------------------------------------------------------------------------
(* Python values.                                                          *)

Unset == [t |-> "unset", v |-> <<>>]
None == [t |-> "none", v |-> <<>>]
PyStr(s) == [t |-> "str", v |-> s]
PyInt(n) == [t |-> "int", v |-> n]
PyBool(b) == [t |-> "bool", v |-> b]
PyList(s) == [t |-> "list", v |-> s]
PyDict(pairs) == [t |-> "dict", v |-> pairs]

Rep(c, n) == [i \in 1..n |-> c]

\* bool(v): the truth value Python gives a value in `if v` / `not v`
Truthy(x) ==
    CASE x.t = "none" -> FALSE
      [] x.t = "str" -> x.v # <<>>
      [] x.t = "int" -> x.v # 0
      [] x.t = "bool" -> x.v
      [] x.t = "list" -> x.v # <<>>
      [] x.t = "dict" -> x.v # <<>>
      [] OTHER -> TRUE

Whitespace == {" ", "\t", "\n", "\r", "\f"}

RECURSIVE LStrip(_)
LStrip(s) ==
    IF s = <<>> THEN s
    ELSE IF Head(s) \in Whitespace THEN LStrip(Tail(s)) ELSE s

RECURSIVE RStrip(_)
RStrip(s) ==
    IF s = <<>> THEN s
    ELSE IF s[Len(s)] \in Whitespace THEN RStrip(SubSeq(s, 1, Len(s) - 1)) ELSE s

\* str.strip()
Strip(s) == RStrip(LStrip(s))

UpperLetters == <<"A", "B", "C", "D", "E", "F">>
LowerLetters == <<"a", "b", "c", "d", "e", "f">>

LowerChar(c) ==
    IF \E i \in 1..Len(UpperLetters) : UpperLetters[i] = c
    THEN LowerLetters[CHOOSE i \in 1..Len(UpperLetters) : UpperLetters[i] = c]
    ELSE c

\* str.lower()
Lower(s) == [i \in 1..Len(s) |-> LowerChar(s[i])]

\* the characters of the model's strings, in code point order
CharOrder ==
    <<"\t", "\n", "\f", "\r", " ", "+", "-", ".", "/", "0", "1", "2", "3", "4", "5",
      "6", "7", "8", "9", ":", "A", "B", "C", "D", "E", "F", "N", "T", "Z", "_",
      "a", "b", "c", "d", "e", "f", "g", "i", "j", "l", "m", "n", "o", "r", "s",
      "t", "u", "v", "w", "x", "y">>

\* ord(c)
Ord(c) == CHOOSE i \in 1..Len(CharOrder) : CharOrder[i] = c

Digits == {"0", "1", "2", "3", "4", "5", "6", "7", "8", "9"}
HexLower == Digits \cup {"a", "b", "c", "d", "e", "f"}

\* re.match of an anchored pattern ^c1c2...cn$ given as the sequence of its
\* character classes: every position matches its class, and `$` matches at
\* the end of the string or just before a newline that ends the string.
ReMatch(pattern, s) ==
    /\ \/ Len(s) = Len(pattern)
       \/ Len(s) = Len(pattern) + 1 /\ s[Len(s)] = "\n"
    /\ \A i \in 1..Len(pattern) : s[i] \in pattern[i]

--------------------------------------------------------------------------
(* The manifest dataclasses (manifest.py).                                 *)

Source(work, format, file) ==
    [t |-> "Source", v |-> [work |-> work, format |-> format, file |-> file]]

Character(role, emotional_range, relationships, source) ==
    [t |-> "Character",
     v |-> [role |-> role, emotional_range |-> emotional_range,
            relationships |-> relationships, source |-> source]]

Provenance(method, engine, consent, license, notes) ==
    [t |-> "Provenance",
     v |-> [method |-> method, engine |-> engine, consent |-> consent,
            license |-> license, notes |-> notes]]

Prosody(pitch_base, pitch_range, rate, energy, emotion_default) ==
    [t |-> "Prosody",
     v |-> [pitch_base |-> pitch_base, pitch_range |-> pitch_range, rate |-> rate,
            energy |-> energy, emotion_default |-> emotion_default]]

ReferenceAudio(file, transcript, language, duration_seconds, context) ==
    [t |-> "ReferenceAudio",
     v |-> [file |-> file, transcript |-> transcript, language |-> language,
            duration_seconds |-> duration_seconds, context |-> context]]

Voice(name, description, language, gender, age_range, tags) ==
    [t |-> "Voice",
     v |-> [name |-> name, description |-> description, language |-> language,
            gender |-> gender, age_range |-> age_range, tags |-> tags]]

VoxManifest(vox_version, id, created, voice, prosody, reference_audio, character, provenance, extensions) ==
    [t |-> "VoxManifest",
     v |-> [vox_version |-> vox_version, id |-> id, created |-> created,
            voice |-> voice, prosody |-> prosody,
            reference_audio |-> reference_audio, character |-> character,
            provenance |-> provenance, extensions |-> extensions]]

--------------------------------------------------------------------------
(* The validator (validator.py).                                           *)

VALID_GENDERS ==
    { <<"m", "a", "l", "e">>, <<"f", "e", "m", "a", "l", "e">>,
      <<"n", "o", "n", "-", "b", "i", "n", "a", "r", "y">>,
      <<"n", "e", "u", "t", "r", "a", "l">> }

UUID_V4_PATTERN ==
    Rep(HexLower, 8) \o <<{"-"}>> \o Rep(HexLower, 4) \o <<{"-"}, {"4"}>>
    \o Rep(HexLower, 3) \o <<{"-"}, {"8", "9", "a", "b"}>> \o Rep(HexLower, 3)
    \o <<{"-"}>> \o Rep(HexLower, 12)

ISO_8601_PATTERN ==
    Rep(Digits, 4) \o <<{"-"}>> \o Rep(Digits, 2) \o <<{"-"}>> \o Rep(Digits, 2)
    \o <<{"T"}>> \o Rep(Digits, 2) \o <<{":"}>> \o Rep(Digits, 2) \o <<{":"}>>
    \o Rep(Digits, 2) \o <<{"Z"}>>

MINIMUM_DESCRIPTION_LENGTH == 10

\* The verdict of one condition of the validator: "yes" (the condition is
\* true), "no", or "crash" (evaluating it raises, e.g. AttributeError).

\* `not value or not value.strip()`
blank_or_empty(value) ==
    IF ~Truthy(value) THEN "yes"
    ELSE IF value.t # "str" THEN "crash"
    ELSE IF Strip(value.v) = <<>> THEN "yes" ELSE "no"

\* `not self._is_valid_uuid_v4(value)`
is_valid_uuid_v4(value) ==
    IF ~Truthy(value) THEN "no"
    ELSE IF value.t # "str" THEN "crash"
    ELSE IF ReMatch(UUID_V4_PATTERN, Lower(value.v)) THEN "yes" ELSE "no"

is_valid_iso8601(value) ==
    IF ~Truthy(value) THEN "no"
    ELSE IF value.t # "str" THEN "crash"
    ELSE IF ReMatch(ISO_8601_PATTERN, value.v) THEN "yes" ELSE "no"

Negate(verdict) ==
    CASE verdict = "yes" -> "no" [] verdict = "no" -> "yes" [] OTHER -> "crash"

Err(type, field, index) == [type |-> type, field |-> field, index |-> index]

\* the block returning after the first error in either mode
CheckReturnsAlways(st, verdict, error, strict) ==
    IF st.returned THEN st
    ELSE IF verdict = "crash" THEN [st EXCEPT !.returned = TRUE, !.crashed = TRUE]
    ELSE IF verdict = "yes"
         THEN [st EXCEPT !.errors = Append(@, error), !.returned = TRUE]
    ELSE st

\* the block with a strict mode that returns without recording the error
CheckStrictSilent(st, verdict, error, strict) ==
    IF st.returned THEN st
    ELSE IF verdict = "crash" THEN [st EXCEPT !.returned = TRUE, !.crashed = TRUE]
    ELSE IF verdict = "yes"
         THEN [st EXCEPT !.errors = IF strict THEN @ ELSE Append(@, error),
                         !.returned = strict]
    ELSE st

\* One `if <condition>: errors.append(error); if strict: return` block, run
\* in frame st = [errors, returned, crashed]; nothing runs after a return.
Check(st, verdict, error, strict) ==
    IF st.returned THEN st
    ELSE IF verdict = "crash" THEN [st EXCEPT !.returned = TRUE, !.crashed = TRUE]
    ELSE IF verdict = "yes"
         THEN [st EXCEPT !.errors = Append(@, error), !.returned = strict]
    ELSE st

\* the description taken without .strip()
stripped_description_untrimmed(d) ==
    IF ~Truthy(d) THEN PyStr(<<>>)
    ELSE IF d.t # "str" THEN Unset
    ELSE PyStr(d.v)

\* description = manifest.voice.description.strip() if ... else ""
stripped_description(d) ==
    IF ~Truthy(d) THEN PyStr(<<>>)
    ELSE IF d.t # "str" THEN Unset
    ELSE PyStr(Strip(d.v))

description_verdict(d, which) ==
    LET s == stripped_description(d) IN
    IF s = Unset THEN "crash"
    ELSE IF which = "empty"
         THEN (IF s.v = <<>> THEN "yes" ELSE "no")
    ELSE (IF s.v # <<>> /\ Len(s.v) < MINIMUM_DESCRIPTION_LENGTH THEN "yes" ELSE "no")

validate_required_fields(m, errors, strict) ==
    LET s0 == [errors |-> errors, returned |-> FALSE, crashed |-> FALSE]
        s1 == Check(s0, blank_or_empty(m.v.vox_version),
                    Err("EmptyRequiredField", "vox_version", -1), strict)
        s2 == Check(s1, Negate(is_valid_uuid_v4(m.v.id)),
                    Err("InvalidUUID", "id", -1), strict)
        s3 == Check(s2, Negate(is_valid_iso8601(m.v.created)),
                    Err("InvalidTimestamp", "created", -1), strict)
        s4 == Check(s3, blank_or_empty(m.v.voice.v.name),
                    Err("EmptyRequiredField", "voice.name", -1), strict)
        s5 == Check(s4, description_verdict(m.v.voice.v.description, "empty"),
                    Err("EmptyRequiredField", "voice.description", -1), strict)
        s6 == Check(s5, description_verdict(m.v.voice.v.description, "short"),
                    Err("DescriptionTooShort", "voice.description", -1), strict)
    IN  [errors |-> s6.errors, crashed |-> s6.crashed]

\* s < t for strs, by code points
RECURSIVE StrLess(_, _)
StrLess(s, t) ==
    IF t = <<>> THEN FALSE
    ELSE IF s = <<>> THEN TRUE
    ELSE IF Head(s) # Head(t) THEN Ord(Head(s)) < Ord(Head(t))
    ELSE StrLess(Tail(s), Tail(t))

\* the number a bool or int counts as in a comparison
AsNumber(x) == IF x.t = "bool" THEN (IF x.v THEN 1 ELSE 0) ELSE x.v

\* `a >= b` on Python values: numbers (bools included) compare by value,
\* strs by code points; None, dicts and operands of different kinds raise
\* TypeError. Lists compare by their first differing elements; the model
\* takes elements that compare neither way as differing.
RECURSIVE PyGe(_, _)
PyGe(a, b) ==
    IF a.t \in {"int", "bool"} /\ b.t \in {"int", "bool"}
    THEN (IF AsNumber(a) >= AsNumber(b) THEN "yes" ELSE "no")
    ELSE IF a.t = "str" /\ b.t = "str"
    THEN (IF StrLess(a.v, b.v) THEN "no" ELSE "yes")
    ELSE IF a.t = "list" /\ b.t = "list"
    THEN (IF b.v = <<>> THEN "yes"
          ELSE IF a.v = <<>> THEN "no"
          ELSE IF PyGe(Head(a.v), Head(b.v)) = "yes" /\ PyGe(Head(b.v), Head(a.v)) = "yes"
               THEN PyGe(PyList(Tail(a.v)), PyList(Tail(b.v)))
          ELSE PyGe(Head(a.v), Head(b.v)))
    ELSE "crash"

\* the age_range test with `min_age > max_age`
age_range_verdict_greater(a) ==
    IF a.t # "list" \/ Len(a.v) # 2 THEN "no"
    ELSE IF a.v[1].t # "int" \/ a.v[2].t # "int" THEN "crash"
    ELSE IF a.v[1].v > a.v[2].v THEN "yes" ELSE "no"

\* `len(age_range) == 2` and then `min_age >= max_age`
age_range_verdict(a) ==
    IF a.t = "none" THEN "no"
    ELSE IF a.t \notin {"list", "str", "dict"} THEN "crash"
    ELSE IF Len(a.v) # 2 THEN "no"
    ELSE IF a.t = "dict" THEN "crash"
    ELSE IF a.t = "str" THEN PyGe(PyStr(<<a.v[1]>>), PyStr(<<a.v[2]>>))
    ELSE PyGe(a.v[1], a.v[2])

gender_verdict(g) ==
    IF g.t = "none" THEN "no"
    ELSE IF g.t \in {"list", "dict"} THEN "crash"
    ELSE IF g.t = "str" /\ g.v \in VALID_GENDERS THEN "no" ELSE "yes"

\* the loop over enumerate(manifest.reference_audio), from 1-based position i
RECURSIVE reference_audio_loop(_, _, _, _)
reference_audio_loop(st, entries, i, strict) ==
    IF i > Len(entries) \/ st.returned THEN st
    ELSE reference_audio_loop(
             Check(st, blank_or_empty(entries[i].v.file),
                   Err("EmptyReferenceAudioPath", "reference_audio", i - 1), strict),
             entries, i + 1, strict)

validate_optional_fields(m, errors, strict) ==
    LET s0 == [errors |-> errors, returned |-> FALSE, crashed |-> FALSE]
        age == m.v.voice.v.age_range
        s1 == Check(s0, age_range_verdict(age),
                    Err("InvalidAgeRange", "voice.age_range", -1), strict)
        s2 == Check(s1, gender_verdict(m.v.voice.v.gender),
                    Err("InvalidGender", "voice.gender", -1), strict)
        ra == m.v.reference_audio
        s3 == IF ra.t = "none" THEN s2
              ELSE reference_audio_loop(s2, ra.v, 1, strict)
    IN  [errors |-> s3.errors, crashed |-> s3.crashed]

\* VoxValidator.validate: what the call does, as [kind, errors]:
\* "returned", "ValidationError" (errors[0] raised itself),
\* "MultipleValidationErrors" (the aggregate carrying errors), or "crash"
\* (an exception that is no validation error).
validate(m, strict) ==
    LET r == validate_required_fields(m, <<>>, strict) IN
    IF r.crashed THEN [kind |-> "crash", errors |-> r.errors]
    ELSE
    LET o == validate_optional_fields(m, r.errors, strict) IN
    IF o.crashed THEN [kind |-> "crash", errors |-> o.errors]
    ELSE IF o.errors # <<>>
         THEN IF strict /\ Len(o.errors) = 1
              THEN [kind |-> "ValidationError", errors |-> o.errors]
              ELSE [kind |-> "MultipleValidationErrors", errors |-> o.errors]
    ELSE [kind |-> "returned", errors |-> <<>>]

--------------------------------------------------------------------------
(* Encoding and decoding of manifests (manifest.py).                       *)

ClassNames ==
    {"Source", "Character", "Provenance", "Prosody", "ReferenceAudio", "Voice",
     "VoxManifest"}

\* the fields of each dataclass, in declaration order
Fields(cls) ==
    CASE cls = "Source" -> <<"work", "format", "file">>
      [] cls = "Character" -> <<"role", "emotional_range", "relationships", "source">>
      [] cls = "Provenance" -> <<"method", "engine", "consent", "license", "notes">>
      [] cls = "Prosody" ->
           <<"pitch_base", "pitch_range", "rate", "energy", "emotion_default">>
      [] cls = "ReferenceAudio" ->
           <<"file", "transcript", "language", "duration_seconds", "context">>
      [] cls = "Voice" ->
           <<"name", "description", "language", "gender", "age_range", "tags">>
      [] cls = "VoxManifest" ->
           <<"vox_version", "id", "created", "voice", "prosody", "reference_audio",
             "character", "provenance", "extensions">>

Range(s) == { s[i] : i \in 1..Len(s) }

Error == [t |-> "error", v |-> <<>>]

\* dataclasses.asdict: dataclass instances become dicts in field order,
\* lists and dicts are rebuilt with their members converted
RECURSIVE asdict(_)
asdict(x) ==
    IF x.t \in ClassNames
    THEN PyDict([i \in 1..Len(Fields(x.t)) |->
                    <<Fields(x.t)[i], asdict(x.v[Fields(x.t)[i]])>>])
    ELSE IF x.t = "list" THEN PyList([i \in 1..Len(x.v) |-> asdict(x.v[i])])
    ELSE IF x.t = "dict"
         THEN PyDict([i \in 1..Len(x.v) |-> <<x.v[i][1], asdict(x.v[i][2])>>])
    ELSE x

NotNoneValue(pair) == pair[2] # None

\* _clean_dict dropping every falsy entry (`if v` for `if v is not None`)
TruthyValue(pair) == Truthy(pair[2])

RECURSIVE clean_dict_truthy(_)
clean_dict_truthy(obj) ==
    IF obj.t = "dict"
    THEN LET kept == SelectSeq(obj.v, TruthyValue) IN
         PyDict([i \in 1..Len(kept) |-> <<kept[i][1], clean_dict_truthy(kept[i][2])>>])
    ELSE IF obj.t = "list"
         THEN PyList([i \in 1..Len(obj.v) |-> clean_dict_truthy(obj.v[i])])
    ELSE obj

\* _clean_dict without its list branch
RECURSIVE clean_dict_skip_lists(_)
clean_dict_skip_lists(obj) ==
    IF obj.t = "dict"
    THEN LET kept == SelectSeq(obj.v, NotNoneValue) IN
         PyDict([i \in 1..Len(kept) |-> <<kept[i][1], clean_dict_skip_lists(kept[i][2])>>])
    ELSE obj

\* to_dict's _clean_dict (asdict has left no dataclass instance)
RECURSIVE clean_dict(_)
clean_dict(obj) ==
    IF obj.t = "dict"
    THEN LET kept == SelectSeq(obj.v, NotNoneValue) IN
         PyDict([i \in 1..Len(kept) |-> <<kept[i][1], clean_dict(kept[i][2])>>])
    ELSE IF obj.t = "list"
         THEN PyList([i \in 1..Len(obj.v) |-> clean_dict(obj.v[i])])
    ELSE obj

to_dict(m) == clean_dict(asdict(m))

\* every key the model uses, in lexicographic order
KeysInOrder ==
    <<"a", "age_range", "b", "character", "consent", "context", "created",
      "description", "duration_seconds", "emotion_default",
      "emotional_range", "energy", "engine", "extensions", "file",
      "format", "gender", "id", "language", "license", "method", "name",
      "notes", "ns", "pitch_base", "pitch_range", "prosody", "provenance",
      "rate", "reference_audio", "relationships", "role", "source", "tags",
      "transcript", "voice", "vox_version", "work", "x_future", "zz">>

KeyRank(k) == CHOOSE i \in 1..Len(KeysInOrder) : KeysInOrder[i] = k

\* sorted(pairs) by key
RECURSIVE InsertPair(_, _)
InsertPair(sorted, pair) ==
    IF sorted = <<>> THEN <<pair>>
    ELSE IF KeyRank(pair[1]) < KeyRank(Head(sorted)[1]) THEN <<pair>> \o sorted
    ELSE <<Head(sorted)>> \o InsertPair(Tail(sorted), pair)

RECURSIVE SortPairs(_)
SortPairs(pairs) ==
    IF pairs = <<>> THEN <<>>
    ELSE InsertPair(SortPairs(SubSeq(pairs, 1, Len(pairs) - 1)), pairs[Len(pairs)])

\* JSON text, as the tree of its tokens: an object holds its members in the
\* order they are written in the text.
JNull == [t |-> "null", v |-> <<>>]
JString(s) == [t |-> "string", v |-> s]
JNumber(n) == [t |-> "number", v |-> n]
JBool(b) == [t |-> IF b THEN "true" ELSE "false", v |-> <<>>]
JArray(items) == [t |-> "array", v |-> items]
JObject(members) == [t |-> "object", v |-> members]
\* a text that is no JSON document
JGarbage == [t |-> "garbage", v |-> <<>>]

\* the text json.dumps writes without sort_keys: members in insertion order
RECURSIVE dumps_unsorted(_)
dumps_unsorted(obj) ==
    CASE obj.t = "none" -> JNull
      [] obj.t = "str" -> JString(obj.v)
      [] obj.t = "int" -> JNumber(obj.v)
      [] obj.t = "bool" -> JBool(obj.v)
      [] obj.t = "list" -> JArray([i \in 1..Len(obj.v) |-> dumps_unsorted(obj.v[i])])
      [] obj.t = "dict" ->
           JObject([i \in 1..Len(obj.v) |-> <<obj.v[i][1], dumps_unsorted(obj.v[i][2])>>])

\* json.dumps(obj, sort_keys = True) of a tree of dict, list, str, int, bool
\* and None
RECURSIVE dumps_sorted(_)
dumps_sorted(obj) ==
    CASE obj.t = "none" -> JNull
      [] obj.t = "str" -> JString(obj.v)
      [] obj.t = "int" -> JNumber(obj.v)
      [] obj.t = "bool" -> JBool(obj.v)
      [] obj.t = "list" -> JArray([i \in 1..Len(obj.v) |-> dumps_sorted(obj.v[i])])
      [] obj.t = "dict" ->
           LET members == SortPairs(obj.v) IN
           JObject([i \in 1..Len(members) |->
                       <<members[i][1], dumps_sorted(members[i][2])>>])

to_json(m) == dumps_sorted(to_dict(m))

HasKey(d, k) == \E i \in 1..Len(d.v) : d.v[i][1] = k

\* d[k] for a key d holds
Item(d, k) == d.v[CHOOSE i \in 1..Len(d.v) : d.v[i][1] = k][2]

\* d.get(k, default)
Get(d, k, default) == IF HasKey(d, k) THEN Item(d, k) ELSE default

\* the members of a JSON object as json.loads stores them in a dict: a key
\* written twice keeps its first place and its last value
RECURSIVE StoreMembers(_, _)
StoreMembers(d, members) ==
    IF members = <<>> THEN d
    ELSE LET k == Head(members)[1]
             val == Head(members)[2]
         IN  StoreMembers(
                 IF HasKey(d, k)
                 THEN PyDict([i \in 1..Len(d.v) |->
                                 IF d.v[i][1] = k THEN <<k, val>> ELSE d.v[i]])
                 ELSE PyDict(Append(d.v, <<k, val>>)),
                 Tail(members))

\* json.loads of a JSON document
RECURSIVE loads(_)
loads(text) ==
    CASE text.t = "null" -> None
      [] text.t = "string" -> PyStr(text.v)
      [] text.t = "number" -> PyInt(text.v)
      [] text.t = "true" -> PyBool(TRUE)
      [] text.t = "false" -> PyBool(FALSE)
      [] text.t = "array" -> PyList([i \in 1..Len(text.v) |-> loads(text.v[i])])
      [] text.t = "object" ->
           StoreMembers(PyDict(<<>>),
                        [i \in 1..Len(text.v) |-> <<text.v[i][1], loads(text.v[i][2])>>])

\* cls(**kw) when the class takes any keyword
KwargsOkAnyKey(cls, kw) == kw.t = "dict"

\* cls(**kw) raises TypeError unless kw is a mapping whose keys are all
\* fields of cls
KwargsOk(cls, kw) ==
    /\ kw.t = "dict"
    /\ \A i \in 1..Len(kw.v) : kw.v[i][1] \in Range(Fields(cls))

NewVoice(kw) ==
    IF ~KwargsOk("Voice", kw) THEN Error
    ELSE Voice(Get(kw, "name", PyStr(<<>>)), Get(kw, "description", PyStr(<<>>)),
               Get(kw, "language", None), Get(kw, "gender", None),
               Get(kw, "age_range", None), Get(kw, "tags", None))

NewProsody(kw) ==
    IF ~KwargsOk("Prosody", kw) THEN Error
    ELSE Prosody(Get(kw, "pitch_base", None), Get(kw, "pitch_range", None),
                 Get(kw, "rate", None), Get(kw, "energy", None),
                 Get(kw, "emotion_default", None))

NewReferenceAudio(kw) ==
    IF ~KwargsOk("ReferenceAudio", kw) THEN Error
    ELSE ReferenceAudio(Get(kw, "file", PyStr(<<>>)), Get(kw, "transcript", PyStr(<<>>)),
                        Get(kw, "language", None), Get(kw, "duration_seconds", None),
                        Get(kw, "context", None))

NewSource(kw) ==
    IF ~KwargsOk("Source", kw) THEN Error
    ELSE Source(Get(kw, "work", None), Get(kw, "format", None), Get(kw, "file", None))

NewCharacter(kw) ==
    IF ~KwargsOk("Character", kw) THEN Error
    ELSE Character(Get(kw, "role", None), Get(kw, "emotional_range", None),
                   Get(kw, "relationships", None), Get(kw, "source", None))

NewProvenance(kw) ==
    IF ~KwargsOk("Provenance", kw) THEN Error
    ELSE Provenance(Get(kw, "method", None), Get(kw, "engine", None),
                    Get(kw, "consent", None), Get(kw, "license", None),
                    Get(kw, "notes", None))

\* `'key' in data and data['key']`
Present(data, key) == HasKey(data, key) /\ Truthy(Item(data, key))

decode_voice(data) ==
    LET voice_data == Get(data, "voice", PyDict(<<>>)) IN
    IF Truthy(voice_data) THEN NewVoice(voice_data)
    ELSE Voice(PyStr(<<>>), PyStr(<<>>), None, None, None, None)

decode_prosody(data) ==
    IF Present(data, "prosody") THEN NewProsody(Item(data, "prosody")) ELSE None

\* [ReferenceAudio(**item) for item in data['reference_audio']]: only a list
\* yields items that can be mappings
decode_reference_audio(data) ==
    IF ~Present(data, "reference_audio") THEN None
    ELSE LET items == Item(data, "reference_audio") IN
         IF items.t # "list" THEN Error
         ELSE LET made == [i \in 1..Len(items.v) |-> NewReferenceAudio(items.v[i])] IN
              IF \E i \in 1..Len(made) : made[i] = Error THEN Error ELSE PyList(made)

decode_character(data) ==
    IF ~Present(data, "character") THEN None
    ELSE LET char_data == Item(data, "character") IN
         IF char_data.t # "dict" THEN Error
         ELSE IF Present(char_data, "source")
              THEN LET source == NewSource(Item(char_data, "source")) IN
                   IF source = Error THEN Error
                   ELSE NewCharacter(
                            PyDict([i \in 1..Len(char_data.v) |->
                                       IF char_data.v[i][1] = "source"
                                       THEN <<"source", source>>
                                       ELSE char_data.v[i]]))
              ELSE NewCharacter(char_data)

decode_provenance(data) ==
    IF Present(data, "provenance") THEN NewProvenance(Item(data, "provenance"))
    ELSE None

\* VoxManifest.from_dict: the manifest, or Error when it raises
from_dict(data) ==
    IF data.t # "dict" THEN Error
    ELSE LET voice == decode_voice(data)
             prosody == decode_prosody(data)
             reference_audio == decode_reference_audio(data)
             character == decode_character(data)
             provenance == decode_provenance(data)
         IN  IF Error \in {voice, prosody, reference_audio, character, provenance}
             THEN Error
             ELSE VoxManifest(Get(data, "vox_version", PyStr(<<>>)),
                              Get(data, "id", PyStr(<<>>)),
                              Get(data, "created", PyStr(<<>>)),
                              voice, prosody, reference_audio, character, provenance,
                              Get(data, "extensions", None))

\* VoxManifest.from_json: json.loads raises on a text that is no JSON
from_json(json_str) ==
    IF json_str.t = "garbage" THEN Error ELSE from_dict(loads(json_str))

\* a == b for Python values: dicts are equal when they hold the same items,
\* whatever the insertion order; dataclass instances field by field
RECURSIVE PyEq(_, _)
PyEq(a, b) ==
    /\ a.t = b.t
    /\ CASE a.t = "dict" ->
              /\ Len(a.v) = Len(b.v)
              /\ \A i \in 1..Len(a.v) :
                    /\ HasKey(b, a.v[i][1])
                    /\ PyEq(a.v[i][2], Item(b, a.v[i][1]))
         [] a.t = "list" ->
              /\ Len(a.v) = Len(b.v)
              /\ \A i \in 1..Len(a.v) : PyEq(a.v[i], b.v[i])
         [] a.t \in ClassNames ->
              \A f \in Range(Fields(a.t)) : PyEq(a.v[f], b.v[f])
         [] OTHER -> a.v = b.v

--------------------------------------------------------------------------
(* Input manifests of the validator session.                               *)

ValidId ==
    Rep("a", 8) \o <<"-">> \o Rep("B", 4) \o <<"-", "4">> \o Rep("c", 3)
    \o <<"-", "A">> \o Rep("0", 3) \o <<"-">> \o Rep("9", 12)

ValidCreated ==
    <<"2", "0", "2", "6", "-", "0", "2", "-", "1", "3", "T",
      "1", "2", ":", "0", "0", ":", "0", "0", "Z">>

VersionInputs == { <<>>, <<"0", ".", "1", ".", "0">> }
IdInputs == { ValidId, <<"i", "d">>, ValidId \o <<"\n">> }
CreatedInputs ==
    { ValidCreated, SubSeq(ValidCreated, 1, 10), ValidCreated \o <<"\n">>,
      SubSeq(ValidCreated, 1, 19) \o <<".", "5", "Z">>,
      SubSeq(ValidCreated, 1, 19) \o <<"+", "0", "0", ":", "0", "0">> }
NameInputs == { <<" ">>, <<"N">> }
DescriptionInputs ==
    { <<>>, <<" ", "\t">>, <<" ">> \o Rep("x", 9) \o <<" ">>, Rep("x", 10) \o <<"\n">>,
      <<"\n", "x", " ">> }
AgeRangeInputs ==
    { None, PyList(<<PyInt(25), PyInt(35)>>), PyList(<<PyInt(25), PyInt(25)>>),
      PyList(<<PyInt(35), PyInt(25)>>), PyList(<<PyInt(25)>>) }
GenderInputs == { None, PyStr(<<"m", "a", "l", "e">>), PyStr(<<"r", "o", "b", "o", "t">>) }
FileInputs == { <<"a", ".", "w", "a", "v">>, <<" ">> }

RECURSIVE SeqsUpTo(_, _)
SeqsUpTo(S, n) ==
    IF n = 0 THEN { <<>> }
    ELSE LET shorter == SeqsUpTo(S, n - 1) IN
         shorter \cup { Append(s, x) : s \in { q \in shorter : Len(q) = n - 1 }, x \in S }

ReferenceAudioInputs ==
    { None } \cup
    { PyList([i \in 1..Len(fs) |-> ReferenceAudio(PyStr(fs[i]), PyStr(<<>>), None, None, None)]) :
        fs \in SeqsUpTo(FileInputs, MaxRefAudio) }

ValidatorInputs ==
    { VoxManifest(PyStr(ver), PyStr(id), PyStr(cr),
                  Voice(PyStr(nm), PyStr(ds), None, g, age, None),
                  None, ra, None, None, None) :
        ver \in VersionInputs, id \in IdInputs, cr \in CreatedInputs,
        nm \in NameInputs, ds \in DescriptionInputs, g \in GenderInputs,
        age \in AgeRangeInputs, ra \in ReferenceAudioInputs }

--------------------------------------------------------------------------
(* The validator session: one manifest, validated in each mode.            *)

InitValidator ==
    /\ manifest \in ValidatorInputs
    /\ strictRes = Unset
    /\ permRes = Unset
    /\ m0 = Unset /\ j0 = Unset /\ m1 = Unset /\ j1 = Unset /\ m2 = Unset
    /\ jAlt = Unset
    /\ disk = Unset /\ container = Unset /\ writeRes = Unset /\ readRes = Unset
    /\ writeLog = <<>> /\ earlier = <<>> /\ readLog = <<>>
    /\ exitCode = Unset

ValidateStrict ==
    /\ manifest.t = "VoxManifest"
    /\ strictRes = Unset
    /\ strictRes' = validate(manifest, TRUE)
    /\ UNCHANGED <<manifest, permRes, codecVars, archiveVars, exitCode>>

ValidatePermissive ==
    /\ manifest.t = "VoxManifest"
    /\ permRes = Unset
    /\ permRes' = validate(manifest, FALSE)
    /\ UNCHANGED <<manifest, strictRes, codecVars, archiveVars, exitCode>>

NextValidator == ValidateStrict \/ ValidatePermissive

SpecValidator == InitValidator /\ [][NextValidator]_vars

--------------------------------------------------------------------------
(* Inputs of the codec session.                                            *)

Reverse(s) == [i \in 1..Len(s) |-> s[Len(s) + 1 - i]]

\* the same value with every mapping in it filled in the reverse order
RECURSIVE ReverseDicts(_)
ReverseDicts(x) ==
    IF x.t = "dict"
    THEN PyDict(Reverse([i \in 1..Len(x.v) |-> <<x.v[i][1], ReverseDicts(x.v[i][2])>>]))
    ELSE IF x.t = "list" THEN PyList([i \in 1..Len(x.v) |-> ReverseDicts(x.v[i])])
    ELSE IF x.t \in ClassNames
         THEN [t |-> x.t, v |-> [f \in DOMAIN x.v |-> ReverseDicts(x.v[f])]]
    ELSE x

Text(c) == PyStr(<<c>>)

Atoms == { None, Text("s"), PyInt(1), PyBool(FALSE) }

\* JSON-like value trees nested at most d levels below the atoms
RECURSIVE Trees(_)
Trees(d) ==
    IF d = 0 THEN Atoms
    ELSE LET T == Trees(d - 1) IN
         Atoms \cup { PyList(<<>>), PyDict(<<>>) }
         \cup { PyList(<<x>>) : x \in T }
         \cup { PyDict(<< <<"a", x>> >>) : x \in T }
         \cup { PyDict(<< <<"b", x>>, <<"a", None>> >>) : x \in T }
         \cup { PyDict(<< <<"zz", PyInt(1)>>, <<"b", x>> >>) : x \in T }

ExtensionInputs ==
    { PyDict(<<>>) } \cup { PyDict(<< <<"ns", x>> >>) : x \in Trees(MaxDepth) }

VoiceInputs ==
    { Voice(PyStr(<<>>), PyStr(<<>>), None, None, None, None),
      Voice(Text("N"), PyStr(Rep("x", 10)), None, None, None, PyList(<<>>)),
      Voice(Text("N"), PyStr(Rep("x", 10)), Text("e"), Text("m"),
            PyList(<<PyInt(25), PyInt(35)>>), PyList(<<Text("t")>>)) }

ProsodyInputs ==
    { None, Prosody(None, None, None, None, None),
      Prosody(None, None, Text("s"), None, None) }

AudioListInputs ==
    { None, PyList(<<>>),
      PyList(<<ReferenceAudio(Text("f"), PyStr(<<>>), None, None, None),
               ReferenceAudio(Text("g"), Text("t"), Text("e"), PyInt(3), Text("c"))>>) }

CharacterInputs ==
    { None, Character(None, None, None, None),
      Character(Text("r"), PyList(<<>>), PyDict(<<>>), None),
      Character(None, PyList(<<Text("j")>>),
                PyDict(<< <<"b", Text("x")>>, <<"a", Text("y")>> >>), None),
      Character(None, None, None, Source(None, None, None)),
      Character(Text("r"), None, None, Source(Text("w"), None, Text("f"))) }

ProvenanceInputs ==
    { None, Provenance(None, None, None, None, None),
      Provenance(Text("d"), None, None, Text("l"), None) }

\* manifests a caller can build from values of the declared field types
ManifestInputs ==
    { VoxManifest(Text("1"), PyStr(ValidId), PyStr(ValidCreated),
                  vc, pr, ra, ch, pv, None) :
        vc \in VoiceInputs, pr \in ProsodyInputs, ra \in AudioListInputs,
        ch \in CharacterInputs, pv \in ProvenanceInputs }
    \cup
    { VoxManifest(PyStr(<<>>), PyStr(ValidId), PyStr(ValidCreated),
                  Voice(Text("N"), PyStr(Rep("x", 10)), None, None, None, None),
                  None, None, None, None, ex) : ex \in ExtensionInputs }

\* manifest.json texts written by other tools: any JSON tree as extensions
JsonInputs ==
    { JObject(<< <<"vox_version", JString(<<"1">>)>>,
                 <<"extensions", dumps_unsorted(x)>>,
                 <<"voice", JObject(<< <<"name", JString(<<"N">>)>> >>)>> >>) :
        x \in Trees(MaxDepth) }

--------------------------------------------------------------------------
(* The codec session: a manifest is encoded, decoded, encoded and decoded  *)
(* again; or a JSON text is decoded and encoded back.                      *)

InitCodec ==
    /\ \/ m0 \in ManifestInputs /\ j0 = Unset
       \/ m0 = Unset /\ j0 \in JsonInputs
    /\ m1 = Unset /\ j1 = Unset /\ m2 = Unset /\ jAlt = Unset
    /\ manifest = Unset /\ strictRes = Unset /\ permRes = Unset
    /\ disk = Unset /\ container = Unset /\ writeRes = Unset /\ readRes = Unset
    /\ writeLog = <<>> /\ earlier = <<>> /\ readLog = <<>>
    /\ exitCode = Unset

Encode0 ==
    /\ m0 # Unset /\ j0 = Unset
    /\ j0' = to_json(m0)
    /\ UNCHANGED <<m0, m1, j1, m2, jAlt, validatorVars, archiveVars, exitCode>>

EncodeAlt ==
    /\ m0 # Unset /\ jAlt = Unset
    /\ jAlt' = to_json(ReverseDicts(m0))
    /\ UNCHANGED <<m0, j0, m1, j1, m2, validatorVars, archiveVars, exitCode>>

Decode1 ==
    /\ j0 # Unset /\ m1 = Unset
    /\ m1' = from_json(j0)
    /\ UNCHANGED <<m0, j0, j1, m2, jAlt, validatorVars, archiveVars, exitCode>>

Encode1 ==
    /\ m1 \notin {Unset, Error} /\ j1 = Unset
    /\ j1' = to_json(m1)
    /\ UNCHANGED <<m0, j0, m1, m2, jAlt, validatorVars, archiveVars, exitCode>>

Decode2 ==
    /\ j1 # Unset /\ m2 = Unset
    /\ m2' = from_json(j1)
    /\ UNCHANGED <<m0, j0, m1, j1, jAlt, validatorVars, archiveVars, exitCode>>

NextCodec == Encode0 \/ EncodeAlt \/ Decode1 \/ Encode1 \/ Decode2

SpecCodec == InitCodec /\ [][NextCodec]_vars

--------------------------------------------------------------------------
(* Properties of the validator.                                            *)

\* The violations of a manifest, rule by rule in the fixed rule order: each
\* rule contributes its error when its condition holds, whatever the other
\* rules find; reference_audio contributes one error per offending index.
IfYes(verdict, error) == IF verdict = "yes" THEN <<error>> ELSE <<>>

RECURSIVE AudioViolations(_, _)
AudioViolations(entries, i) ==
    IF i > Len(entries) THEN <<>>
    ELSE IfYes(blank_or_empty(entries[i].v.file),
               Err("EmptyReferenceAudioPath", "reference_audio", i - 1))
         \o AudioViolations(entries, i + 1)

RuleViolations(m) ==
    IfYes(blank_or_empty(m.v.vox_version), Err("EmptyRequiredField", "vox_version", -1))
    \o IfYes(Negate(is_valid_uuid_v4(m.v.id)), Err("InvalidUUID", "id", -1))
    \o IfYes(Negate(is_valid_iso8601(m.v.created)), Err("InvalidTimestamp", "created", -1))
    \o IfYes(blank_or_empty(m.v.voice.v.name),
             Err("EmptyRequiredField", "voice.name", -1))
    \o IfYes(description_verdict(m.v.voice.v.description, "empty"),
             Err("EmptyRequiredField", "voice.description", -1))
    \o IfYes(description_verdict(m.v.voice.v.description, "short"),
             Err("DescriptionTooShort", "voice.description", -1))
    \o IfYes(age_range_verdict(m.v.voice.v.age_range),
             Err("InvalidAgeRange", "voice.age_range", -1))
    \o IfYes(gender_verdict(m.v.voice.v.gender), Err("InvalidGender", "voice.gender", -1))
    \o (IF m.v.reference_audio.t = "none" THEN <<>>
        ELSE AudioViolations(m.v.reference_audio.v, 1))

\* C1 (as claimed): whenever strict validation of a manifest fails, it
\* reports exactly one violation, raised as that single ValidationError and
\* never wrapped in MultipleValidationErrors.
C1_StrictRaisesExactlyOne ==
    (strictRes # Unset /\ strictRes.kind # "returned")
        => (strictRes.kind = "ValidationError" /\ Len(strictRes.errors) = 1)

\* C2: permissive validation evaluates every rule; an invalid manifest
\* raises MultipleValidationErrors carrying exactly one entry per violated
\* rule (one per offending reference_audio index) in the fixed rule order,
\* also when there is a single violation; a valid manifest raises nothing.
C2_PermissiveCollectsAll ==
    permRes # Unset =>
        IF RuleViolations(manifest) = <<>>
        THEN permRes = [kind |-> "returned", errors |-> <<>>]
        ELSE permRes = [kind |-> "MultipleValidationErrors",
                        errors |-> RuleViolations(manifest)]

\* a permissive run that found a required-field violation, an optional-field
\* violation and two offending reference_audio indices
C2_Witness ==
    /\ permRes # Unset
    /\ permRes.kind = "MultipleValidationErrors"
    /\ \E i, j, k, l \in 1..Len(permRes.errors) :
          /\ i < j /\ j < k /\ k < l
          /\ permRes.errors[i].type = "InvalidUUID"
          /\ permRes.errors[j].type = "InvalidGender"
          /\ permRes.errors[k] = Err("EmptyReferenceAudioPath", "reference_audio", 0)
          /\ permRes.errors[l] = Err("EmptyReferenceAudioPath", "reference_audio", 1)

\* a permissive run whose manifest violates a single rule
C2_SingleViolationWitness ==
    /\ permRes # Unset
    /\ permRes.kind = "MultipleValidationErrors"
    /\ Len(permRes.errors) = 1

\* The format invariants of the data model, stated on the field values.
IsBlank(s) == \A i \in 1..Len(s) : s[i] \in Whitespace

UuidV4Shaped(s) ==
    /\ Len(s) = 36
    /\ \A i \in 1..36 :
          LET c == LowerChar(s[i]) IN
          CASE i \in {9, 14, 19, 24} -> c = "-"
            [] i = 15 -> c = "4"
            [] i = 20 -> c \in {"8", "9", "a", "b"}
            [] OTHER -> c \in HexLower

TimestampShaped(s) ==
    /\ Len(s) = 20
    /\ \A i \in 1..20 :
          CASE i \in {5, 8} -> s[i] = "-"
            [] i = 11 -> s[i] = "T"
            [] i \in {14, 17} -> s[i] = ":"
            [] i = 20 -> s[i] = "Z"
            [] OTHER -> s[i] \in Digits

SatisfiesFormatInvariants(m) ==
    /\ ~IsBlank(m.v.vox_version.v)
    /\ UuidV4Shaped(m.v.id.v)
    /\ TimestampShaped(m.v.created.v)
    /\ ~IsBlank(m.v.voice.v.name.v)
    /\ Len(Strip(m.v.voice.v.description.v)) >= 10
    /\ LET a == m.v.voice.v.age_range IN
       a # None => (Len(a.v) = 2 /\ a.v[1].v < a.v[2].v)
    /\ LET g == m.v.voice.v.gender IN
       g # None => g.v \in VALID_GENDERS
    /\ LET ra == m.v.reference_audio IN
       ra # None => \A i \in 1..Len(ra.v) : ~IsBlank(ra.v[i].v.file.v)

\* C3 (as claimed): validate succeeds if and only if the manifest satisfies
\* every format invariant.
C3_ValidIffInvariants ==
    permRes # Unset =>
        (permRes.kind = "returned" <=> SatisfiesFormatInvariants(manifest))

--------------------------------------------------------------------------
(* Properties of the codec.                                                *)

\* the texts to_json has produced in this session
Encoded ==
    ({j1, jAlt} \cup (IF m0 # Unset THEN {j0} ELSE {})) \ {Unset}

\* C4 (as claimed): decoding the encoding of a manifest built from values of
\* the declared field types gives a manifest equal to it field for field.
C4_RoundTripIdentity ==
    (m0 # Unset /\ m1 # Unset) => PyEq(m1, m0)

RECURSIVE HasNull(_)
HasNull(j) ==
    \/ j.t = "null"
    \/ j.t = "array" /\ \E i \in 1..Len(j.v) : HasNull(j.v[i])
    \/ j.t = "object" /\ \E i \in 1..Len(j.v) : HasNull(j.v[i][2])

RECURSIVE HasNullMember(_)
HasNullMember(j) ==
    \/ j.t = "array" /\ \E i \in 1..Len(j.v) : HasNullMember(j.v[i])
    \/ j.t = "object" /\ \E i \in 1..Len(j.v) :
          j.v[i][2].t = "null" \/ HasNullMember(j.v[i][2])

C7_NullElementWitness ==
    /\ m0 # Unset /\ j0 # Unset
    /\ m0.v.extensions = PyDict(<< <<"ns", PyList(<<None>>)>> >>)
    /\ HasNull(j0)

IsObjectWith(j, k) == j.t = "object" /\ HasKey(j, k)

\* C8 (as claimed): for a manifest JSON whose extensions value is any JSON
\* tree, from_json stores the tree unchanged and to_json of the decoded
\* manifest emits an extensions tree equal to it.
C8_ExtensionsPassThrough ==
    (IsObjectWith(j0, "extensions") /\ m1 \notin {Unset, Error} /\ j1 # Unset) =>
        /\ PyEq(m1.v.extensions, loads(Item(j0, "extensions")))
        /\ IsObjectWith(j1, "extensions")
        /\ PyEq(loads(Item(j1, "extensions")), loads(Item(j0, "extensions")))

\* C9: a manifest obtained by decoding an encoded manifest is a fixed point:
\* encoding and decoding it again gives a manifest equal to it.
C9_SecondRoundTripFixed ==
    (m0 # Unset /\ m2 # Unset) => (m1 # Error /\ PyEq(m2, m1))

\* a second round trip of a manifest that the first round trip changed
C9_Witness ==
    /\ m0 # Unset /\ m2 # Unset
    /\ ~PyEq(m1, m0)
    /\ m0.v.extensions # None

RECURSIVE KeysSorted(_)
KeysSorted(j) ==
    /\ j.t = "array" => \A i \in 1..Len(j.v) : KeysSorted(j.v[i])
    /\ j.t = "object" =>
          /\ \A i \in 1..Len(j.v) : KeysSorted(j.v[i][2])
          /\ \A i \in 1..(Len(j.v) - 1) : KeyRank(j.v[i][1]) < KeyRank(j.v[i + 1][1])

\* C10: to_json emits the keys of every object in lexicographic order, at
\* every nesting level, and two equal manifests whose mappings were filled in
\* different orders encode to the same text.
C10_Deterministic ==
    /\ \A j \in Encoded : KeysSorted(j)
    /\ (m0 # Unset /\ j0 # Unset /\ jAlt # Unset) => jAlt = j0

\* both encodings of a manifest whose mappings differ in insertion order
C10_Witness ==
    /\ m0 # Unset /\ j0 # Unset /\ jAlt # Unset
    /\ ReverseDicts(m0) # m0
    /\ PyEq(ReverseDicts(m0), m0)

--------------------------------------------------------------------------
(* Archives (vox_file.py, writer.py, reader.py).                           *)

\* File contents: bytes that are not UTF-8 text, or the UTF-8 encoding of a
\* text (a JSON document, or JGarbage).
Binary(n) == [t |-> "binary", v |-> n]
Utf8(text) == [t |-> "utf8", v |-> text]

\* An asset map: the sequence of its <<name, bytes>> items in insertion
\* order; names are strs, as sequences of characters.
Map(items) == [t |-> "map", v |-> items]

VoxFile(manifest_, reference_audio, extensions_files) ==
    [manifest |-> manifest_, reference_audio |-> reference_audio,
     extensions_files |-> extensions_files]

\* The file at the path: absent, something zipfile cannot open as a ZIP
\* archive ("other"), or a ZIP archive with its entries in the order written.
NoFile == [kind |-> "missing", entries |-> <<>>]
NotZip == [kind |-> "other", entries |-> <<>>]
Zip(entries) == [kind |-> "zip", entries |-> entries]
Entry(name, data) == [name |-> name, data |-> data]

ManifestPath == <<"m", "a", "n", "i", "f", "e", "s", "t", ".", "j", "s", "o", "n">>
ReferenceDir == <<"r", "e", "f", "e", "r", "e", "n", "c", "e", "/">>
EmbeddingsDir == <<"e", "m", "b", "e", "d", "d", "i", "n", "g", "s", "/">>

\* str.startswith
StartsWith(s, prefix) ==
    Len(s) >= Len(prefix) /\ SubSeq(s, 1, Len(prefix)) = prefix

\* ZipInfo.is_dir
is_dir(name) == name # <<>> /\ name[Len(name)] = "/"

\* the components of a path: its runs of characters between slashes, without
\* the empty ones and the "." ones
RECURSIVE PathParts(_, _, _)
PathParts(s, i, current) ==
    LET done == IF current \in {<<>>, <<".">>} THEN <<>> ELSE <<current>> IN
    IF i > Len(s) THEN done
    ELSE IF s[i] = "/" THEN done \o PathParts(s, i + 1, <<>>)
    ELSE PathParts(s, i + 1, Append(current, s[i]))

\* Path(s).name
PathName(s) ==
    LET parts == PathParts(s, 1, <<>>) IN
    IF parts = <<>> THEN <<>> ELSE parts[Len(parts)]

HasName(items, name) == \E i \in 1..Len(items) : items[i][1] = name

\* d[name] = data on a dict: a name already there keeps its place
Put(items, name, data) ==
    IF HasName(items, name)
    THEN [i \in 1..Len(items) |-> IF items[i][1] = name THEN <<name, data>> ELSE items[i]]
    ELSE Append(items, <<name, data>>)

\* the character U+0000
NUL == "NUL"

\* ZipInfo(filename): the name an entry gets is cut at its first null byte
RECURSIVE zip_name(_)
zip_name(name) ==
    IF name = <<>> \/ Head(name) = NUL THEN <<>>
    ELSE <<Head(name)>> \o zip_name(Tail(name))

\* `if asset_map:` of the writer
NonEmptyMap(m) == m # None /\ m.v # <<>>

\* VoxWriter._write_manifest
write_manifest(m) == <<Entry(ManifestPath, Utf8(to_json(m)))>>

\* VoxWriter._write_reference_audio
write_reference_audio(items) ==
    [i \in 1..Len(items) |-> Entry(zip_name(ReferenceDir \o items[i][1]), items[i][2])]

\* archive.writestr(name, data) raises IndexError on a name that is empty
\* once cut: it looks at the last character of the entry's name
writestr_raises(name) == zip_name(name) = <<>>

\* the items the loop of _write_extensions gets through: those before the
\* first one writestr raises on
WrittenItems(items) ==
    LET raising == { i \in 1..Len(items) : writestr_raises(items[i][1]) } IN
    IF raising = {} THEN items
    ELSE SubSeq(items, 1, (CHOOSE i \in raising : \A k \in raising : i <= k) - 1)

\* VoxWriter._write_extensions: the entries it adds
write_extensions(items) ==
    [i \in 1..Len(WrittenItems(items)) |-> Entry(zip_name(items[i][1]), items[i][2])]

\* an exception leaves the `with` block of write
write_raises(vox_file) ==
    /\ NonEmptyMap(vox_file.extensions_files)
    /\ WrittenItems(vox_file.extensions_files.v) # vox_file.extensions_files.v

\* the archive VoxWriter.write leaves at the path when the `with` block is
\* left, normally or by an exception: ZipFile.__exit__ closes the archive
\* with the entries written so far
written_archive(vox_file) ==
    Zip(write_manifest(vox_file.manifest)
        \o (IF NonEmptyMap(vox_file.reference_audio)
            THEN write_reference_audio(vox_file.reference_audio.v) ELSE <<>>)
        \o (IF NonEmptyMap(vox_file.extensions_files)
            THEN write_extensions(vox_file.extensions_files.v) ELSE <<>>))

\* the first four bytes of a file: an archive starts with the local file
\* header of its first entry, an archive without entries with its end of
\* central directory record
LocalHeaderSignature == <<"50", "4B", "03", "04">>
EndOfDirectorySignature == <<"50", "4B", "05", "06">>

FirstFourBytes(file) ==
    IF file.kind = "zip"
    THEN (IF file.entries # <<>> THEN LocalHeaderSignature ELSE EndOfDirectorySignature)
    ELSE <<>>

\* _verify_zip_format without its comparison
verify_zip_format_unchecked(file) == TRUE

\* VoxWriter._verify_zip_format: FALSE when it raises WriteError
verify_zip_format(file) == FirstFourBytes(file) = LocalHeaderSignature

\* What a write meets at its destination: a path it can create or
\* truncate ("file"); such a path whose file another process replaces, once
\* the archive is closed, by a file that is no archive ("replaced"); or a
\* path that cannot be opened for writing, such as a directory or a path in
\* a directory that does not exist ("unwritable").
Destinations == {"file", "replaced", "unwritable"}

\* the file that open(file_path, 'rb') finds after the archive is closed
closed_file(archive, destination) ==
    IF destination = "replaced" THEN NotZip ELSE archive

\* write with the archive opened in mode 'a': the entries are added to the
\* archive found at the destination
write_appending(vox_file, destination, before) ==
    IF destination = "unwritable"
    THEN [file |-> before, log |-> <<"open">>, res |-> [kind |-> "WriteError"]]
    ELSE
    LET file == closed_file(Zip(before.entries \o written_archive(vox_file).entries),
                            destination) IN
    [file |-> file,
     log |-> <<"open", "write_manifest">>
             \o (IF NonEmptyMap(vox_file.reference_audio)
                 THEN <<"write_reference_audio">> ELSE <<>>)
             \o (IF NonEmptyMap(vox_file.extensions_files)
                 THEN <<"write_extensions">> ELSE <<>>)
             \o <<"close">>
             \o (IF write_raises(vox_file) THEN <<>> ELSE <<"verify_zip_format">>),
     res |-> [kind |-> IF ~write_raises(vox_file) /\ verify_zip_format(file)
                       THEN "ok" ELSE "WriteError"]]

\* VoxWriter.write on a destination holding the file `before`: the file it
\* leaves there, the steps it took, and the kind "ok" when it returns or
\* "WriteError" when it raises
write(vox_file, destination, before) ==
    IF destination = "unwritable"
    THEN [file |-> before, log |-> <<"open">>, res |-> [kind |-> "WriteError"]]
    ELSE
    LET file == closed_file(written_archive(vox_file), destination) IN
    [file |-> file,
     log |-> <<"open", "write_manifest">>
             \o (IF NonEmptyMap(vox_file.reference_audio)
                 THEN <<"write_reference_audio">> ELSE <<>>)
             \o (IF NonEmptyMap(vox_file.extensions_files)
                 THEN <<"write_extensions">> ELSE <<>>)
             \o <<"close">>
             \o (IF write_raises(vox_file) THEN <<>> ELSE <<"verify_zip_format">>),
     res |-> [kind |-> IF ~write_raises(vox_file) /\ verify_zip_format(file)
                       THEN "ok" ELSE "WriteError"]]

InArchive(entries, name) == \E i \in 1..Len(entries) : entries[i].name = name

\* ZipFile.read(name): the data of the last entry written under that name
zip_read(entries, name) ==
    LET last == CHOOSE i \in 1..Len(entries) :
                    /\ entries[i].name = name
                    /\ \A k \in (i + 1)..Len(entries) : entries[k].name # name
    IN  entries[last].data

Failure(kind) == [kind |-> kind, file |-> Unset]

\* VoxReader._read_manifest without its namelist test: the KeyError of
\* archive.read is reported as InvalidManifest
read_manifest_unchecked(entries) ==
    IF ~InArchive(entries, ManifestPath) THEN Failure("InvalidManifest")
    ELSE LET manifest_bytes == zip_read(entries, ManifestPath) IN
         IF manifest_bytes.t # "utf8" THEN Failure("InvalidManifest")
         ELSE IF from_json(manifest_bytes.v) = Error THEN Failure("InvalidManifest")
         ELSE [kind |-> "ok", file |-> from_json(manifest_bytes.v)]

\* VoxReader._read_manifest: [kind |-> "ok", file |-> the manifest], or the
\* error it raises
read_manifest(entries) ==
    IF ~InArchive(entries, ManifestPath) THEN Failure("ManifestNotFound")
    ELSE LET manifest_bytes == zip_read(entries, ManifestPath) IN
         IF manifest_bytes.t # "utf8" THEN Failure("InvalidManifest")
         ELSE IF manifest_bytes.v = JGarbage THEN Failure("InvalidManifest")
         ELSE IF from_dict(loads(manifest_bytes.v)) = Error
              THEN Failure("InvalidManifest")
         ELSE [kind |-> "ok", file |-> from_dict(loads(manifest_bytes.v))]

\* the loop with a missing entry's KeyError left uncaught
RECURSIVE read_listed_audio_raising(_, _, _, _)
read_listed_audio_raising(entries, listed, i, found) ==
    IF i > Len(listed) THEN Map(found)
    ELSE LET file_path == listed[i].v.file IN
         IF ~Truthy(file_path)
         THEN read_listed_audio_raising(entries, listed, i + 1, found)
         ELSE IF file_path.t # "str" \/ ~InArchive(entries, file_path.v) THEN Error
         ELSE read_listed_audio_raising(entries, listed, i + 1,
                  Put(found, PathName(file_path.v), zip_read(entries, file_path.v)))

\* the loop over manifest.reference_audio, from position i, filling the
\* dict `found`: the Map it leaves, or Error when archive.read raises something else than KeyError
RECURSIVE read_listed_audio(_, _, _, _)
read_listed_audio(entries, listed, i, found) ==
    IF i > Len(listed) THEN Map(found)
    ELSE LET file_path == listed[i].v.file IN
         IF ~Truthy(file_path)
         THEN read_listed_audio(entries, listed, i + 1, found)
         ELSE IF file_path.t \in {"list", "dict"} THEN Error
         ELSE IF file_path.t # "str" \/ ~InArchive(entries, file_path.v)
              THEN read_listed_audio(entries, listed, i + 1, found)
         ELSE read_listed_audio(entries, listed, i + 1,
                  Put(found, PathName(file_path.v), zip_read(entries, file_path.v)))

\* the scan without its `filename not in reference_audio` test
RECURSIVE scan_reference_dir_overwriting(_, _, _)
scan_reference_dir_overwriting(entries, i, found) ==
    IF i > Len(entries) THEN found
    ELSE LET filename == entries[i].name IN
         IF StartsWith(filename, ReferenceDir) /\ ~is_dir(filename)
         THEN scan_reference_dir_overwriting(entries, i + 1,
                  Put(found, PathName(filename), zip_read(entries, filename)))
         ELSE scan_reference_dir_overwriting(entries, i + 1, found)

\* the scan of archive.infolist() for entries under reference/
RECURSIVE scan_reference_dir(_, _, _)
scan_reference_dir(entries, i, found) ==
    IF i > Len(entries) THEN found
    ELSE LET filename == entries[i].name IN
         IF StartsWith(filename, ReferenceDir) /\ ~is_dir(filename)
            /\ ~HasName(found, PathName(filename))
         THEN scan_reference_dir(entries, i + 1,
                  Put(found, PathName(filename), zip_read(entries, filename)))
         ELSE scan_reference_dir(entries, i + 1, found)

\* VoxReader._read_reference_audio
read_reference_audio(entries, m) ==
    LET listed == IF Truthy(m.v.reference_audio)
                  THEN read_listed_audio(entries, m.v.reference_audio.v, 1, <<>>)
                  ELSE Map(<<>>)
    IN  IF listed = Error THEN Error
        ELSE Map(scan_reference_dir(entries, 1, listed.v))

\* VoxReader._read_extensions
RECURSIVE read_extensions(_, _, _)
read_extensions(entries, i, found) ==
    IF i > Len(entries) THEN found
    ELSE LET filename == entries[i].name IN
         IF StartsWith(filename, EmbeddingsDir) /\ ~is_dir(filename)
         THEN read_extensions(entries, i + 1,
                  Put(found, filename, zip_read(entries, filename)))
         ELSE read_extensions(entries, i + 1, found)

\* VoxReader.read: [kind |-> "VoxFile", file |-> the container], or the
\* error raised: "InvalidArchive", "ManifestNotFound", "InvalidManifest", or
\* "crash" for any other exception
read(file) ==
    IF file.kind # "zip" THEN Failure("InvalidArchive")
    ELSE LET got == read_manifest(file.entries) IN
         IF got.kind # "ok" THEN got
         ELSE LET reference_audio == read_reference_audio(file.entries, got.file)
                  extensions_files == read_extensions(file.entries, 1, <<>>)
              IN  IF reference_audio = Error THEN Failure("crash")
                  ELSE [kind |-> "VoxFile",
                        file |-> VoxFile(got.file,
                                    IF reference_audio.v # <<>>
                                    THEN reference_audio ELSE None,
                                    IF extensions_files # <<>>
                                    THEN Map(extensions_files) ELSE None)]

\* read without its `finally`: the handle is closed on the success path only
read_steps_unclosed(file) ==
    IF file.kind # "zip" THEN <<>>
    ELSE LET got == read_manifest(file.entries) IN
         IF got.kind # "ok" THEN <<"open", "read_manifest">>
         ELSE IF read_reference_audio(file.entries, got.file) = Error
              THEN <<"open", "read_manifest", "read_reference_audio">>
         ELSE <<"open", "read_manifest", "read_reference_audio", "read_extensions",
                "close">>

\* the steps VoxReader.read takes on its archive handle, in order; none when
\* zipfile.ZipFile raised and read got no handle
read_steps(file) ==
    IF file.kind # "zip" THEN <<>>
    ELSE LET got == read_manifest(file.entries) IN
         <<"open", "read_manifest">>
         \o (IF got.kind # "ok" THEN <<>>
             ELSE <<"read_reference_audio">>
                  \o (IF read_reference_audio(file.entries, got.file) = Error
                      THEN <<>> ELSE <<"read_extensions">>))
         \o <<"close">>

--------------------------------------------------------------------------
(* Inputs of the archive session.                                          *)

AudioA == ReferenceDir \o <<"a">>
AudioNested == ReferenceDir \o <<"s", "/", "a">>
AudioMissing == ReferenceDir \o <<"m">>
EmbeddingV == EmbeddingsDir \o <<"q", "/", "v">>
OtherV == <<"o", "/", "v">>
OtherA == <<"o", "/", "a">>
AudioB == ReferenceDir \o <<"b">>

Listed(files) ==
    PyList([i \in 1..Len(files) |->
               ReferenceAudio(PyStr(files[i]), PyStr(<<>>), None, None, None)])

BaseManifest(prosody, reference_audio) ==
    VoxManifest(Text("1"), PyStr(ValidId), PyStr(ValidCreated),
                Voice(Text("N"), PyStr(Rep("x", 10)), None, None, None, None),
                prosody, reference_audio, None, None, None)

ArchiveManifests ==
    { BaseManifest(None, None),
      BaseManifest(Prosody(None, None, None, None, None), None),
      BaseManifest(None, Listed(<<AudioA>>)),
      BaseManifest(None, Listed(<<AudioMissing, AudioA>>)),
      BaseManifest(None, Listed(<<EmbeddingV>>)) }

ReferenceMaps ==
    { None, Map(<<>>), Map(<< <<<<"a">>, Binary(1)>> >>),
      Map(<< <<<<"a">>, Binary(1)>>, <<<<"b">>, Binary(2)>> >>),
      Map(<< <<<<"s", "/", "a">>, Binary(1)>> >>),
      Map(<< <<<<"s", "/", "a">>, Binary(1)>>, <<<<"a">>, Binary(2)>> >>),
      Map(<< <<<<"a", NUL, "b">>, Binary(1)>> >>) }

ExtensionMaps ==
    { None, Map(<<>>), Map(<< <<EmbeddingV, Binary(3)>> >>),
      Map(<< <<OtherV, Binary(3)>> >>),
      Map(<< <<ManifestPath, Binary(3)>> >>),
      Map(<< <<ReferenceDir \o <<"z">>, Binary(3)>> >>),
      Map(<< <<EmbeddingsDir \o <<"v", NUL, "w">>, Binary(3)>> >>),
      Map(<< <<EmbeddingV, Binary(3)>>, <<<<>>, Binary(4)>>, <<OtherV, Binary(5)>> >>) }

ContainerInputs ==
    { VoxFile(m, ra, ex) :
        m \in ArchiveManifests, ra \in ReferenceMaps, ex \in ExtensionMaps }

\* an object whose only member is no field of any section
UnknownMember == JObject(<< <<"zz", JNumber(1)>> >>)

\* JSON values that are no object: null, strings, numbers, booleans and
\* arrays, each one empty (or zero, or false) and not
NonObjectTexts ==
    { JNull, JString(<<>>), JString(<<"N">>), JNumber(0), JNumber(5),
      JBool(FALSE), JBool(TRUE), JArray(<<>>), JArray(<<JNumber(1)>>) }

\* the containers written over an archive this library wrote
OverwriteInputs ==
    { VoxFile(BaseManifest(Prosody(None, None, None, None, None), None), None, None),
      VoxFile(BaseManifest(None, Listed(<<AudioB>>)),
              Map(<< <<<<"b">>, Binary(6)>> >>),
              Map(<< <<EmbeddingsDir \o <<"w">>, Binary(7)>> >>)),
      VoxFile(BaseManifest(Prosody(None, None, None, None, None), None),
              Map(<< <<<<"b">>, Binary(6)>> >>),
              Map(<< <<EmbeddingsDir \o <<"w">>, Binary(7)>>, <<<<>>, Binary(8)>> >>)) }

ManifestTexts ==
    { JGarbage, JArray(<<>>), JObject(<<>>),
      JObject(<< <<"voice", JObject(<< <<"zz", JNumber(1)>> >>)>> >>),
      JObject(<< <<"x_future", JNumber(1)>>,
                 <<"reference_audio",
                   JArray(<< JObject(<< <<"file", JString(AudioA)>> >>) >>)>> >>) }
    \cup { JObject(<< <<"vox_version", JString(<<"1">>)>>, <<"voice", text>> >>) :
             text \in NonObjectTexts }
    \cup { JObject(<< <<"vox_version", JString(<<"1">>)>>, <<section, UnknownMember>> >>) :
             section \in {"prosody", "character", "provenance"} }
    \cup { JObject(<< <<"character", JObject(<< <<"source", UnknownMember>> >>)>> >>),
           JObject(<< <<"reference_audio",
                        JArray(<< JObject(<< <<"file", JString(AudioA)>>,
                                             <<"zz", JNumber(1)>> >>) >>)>> >>),
           JObject(<< <<"format_version", JString(<<"1">>)>>,
                      <<"voice", JObject(<< <<"name", JString(<<"N">>)>> >>)>>,
                      <<"x_future", JObject(<< <<"zz", JNumber(1)>> >>)>> >>) }

\* a manifest.json text whose reference_audio lists the given file values
ListingText(files) ==
    JObject(<< <<"reference_audio",
                 JArray([i \in 1..Len(files) |-> JObject(<< <<"file", files[i]>> >>)])>> >>)

ListingInputs ==
    { <<JString(OtherA)>>, <<JString(AudioMissing)>>,
      <<JString(AudioMissing), JString(AudioA)>>,
      <<JString(AudioA), JString(AudioNested)>>,
      <<JString(OtherA), JNull, JString(AudioMissing), JString(AudioB)>>,
      <<JString(AudioMissing), JArray(<<JString(AudioA)>>)>> }

\* the entries that follow manifest.json in the archives with a listing:
\* files inside and outside reference/, two of them under one basename with
\* other bytes, and the entry of the directory itself
AssetEntries ==
    <<Entry(ReferenceDir, Binary(0)), Entry(AudioA, Binary(2)),
      Entry(OtherA, Binary(1)), Entry(AudioNested, Binary(3)),
      Entry(AudioB, Binary(4)), Entry(EmbeddingV, Binary(5))>>

\* files found at the path that this library did not write
DiskInputs ==
    { NoFile, NotZip, Zip(<<>>),
      Zip(<<Entry(AudioA, Binary(1))>>),
      Zip(<<Entry(<<"s", "/">> \o ManifestPath, Utf8(JObject(<<>>)))>>),
      Zip(<<Entry(ManifestPath, Binary(1)), Entry(AudioA, Binary(1))>>) }
    \cup { Zip(<<Entry(ManifestPath, Utf8(text)), Entry(AudioA, Binary(1)),
                 Entry(EmbeddingV, Binary(2))>>) : text \in ManifestTexts }
    \cup { Zip(<<Entry(ManifestPath, Utf8(JObject(<<>>))),
                 Entry(ManifestPath, Utf8(text))>>) : text \in ManifestTexts }
    \cup { Zip(<<Entry(ManifestPath, Utf8(ListingText(files)))>> \o AssetEntries) :
             files \in ListingInputs }

--------------------------------------------------------------------------
(* The archive session: a file is at the path or not; a container may be   *)
(* written there; the path is read.                                        *)

InitArchive ==
    /\ disk \in DiskInputs
    /\ container = Unset /\ writeRes = Unset /\ readRes = Unset
    /\ writeLog = <<>> /\ earlier = <<>> /\ readLog = <<>>
    /\ exitCode = Unset
    /\ manifest = Unset /\ strictRes = Unset /\ permRes = Unset
    /\ m0 = Unset /\ j0 = Unset /\ m1 = Unset /\ j1 = Unset /\ m2 = Unset
    /\ jAlt = Unset

\* VoxWriter.write(vox_file, output_path)
Write(vox_file, destination) ==
    /\ readRes = Unset
    /\ earlier' = IF container = Unset THEN earlier ELSE Append(earlier, container)
    /\ container' = vox_file
    /\ disk' = write(vox_file, destination, disk).file
    /\ writeLog' = write(vox_file, destination, disk).log
    /\ writeRes' = write(vox_file, destination, disk).res
    /\ UNCHANGED <<readRes, readLog, validatorVars, codecVars, exitCode>>

\* VoxReader.read(file_path)
Read ==
    /\ readRes = Unset
    /\ readRes' = read(disk)
    /\ readLog' = read_steps(disk)
    /\ UNCHANGED <<disk, container, writeRes, writeLog, earlier, validatorVars, codecVars, exitCode>>

\* a first write to the path; then writes over the archive a write that
\* returned left there, MaxWrites writes at most; a read ends the session
NextArchive ==
    \/ /\ container = Unset
       /\ \E vox_file \in ContainerInputs, destination \in Destinations :
             Write(vox_file, destination)
    \/ /\ container # Unset /\ writeRes.kind = "ok" /\ Len(earlier) + 1 < MaxWrites
       /\ \E vox_file \in OverwriteInputs, destination \in Destinations :
             Write(vox_file, destination)
    \/ Read

SpecArchive == InitArchive /\ [][NextArchive]_vars

--------------------------------------------------------------------------
(* Properties of the archive reader and writer.                            *)

\* a == b for asset maps
MapEq(a, b) ==
    IF a = None \/ b = None THEN a = b
    ELSE /\ Len(a.v) = Len(b.v)
         /\ \A i \in 1..Len(a.v) :
               \E k \in 1..Len(b.v) : b.v[k] = a.v[i]

\* the asset map with each key replaced by its basename
RECURSIVE WithBasenames(_, _, _)
WithBasenames(items, i, out) ==
    IF i > Len(items) THEN out
    ELSE WithBasenames(items, i + 1, Put(out, PathName(items[i][1]), items[i][2]))

BasenameKeys(m) == IF m = None THEN None ELSE Map(WithBasenames(m.v, 1, <<>>))

\* C5 (as claimed): reading the file VoxWriter.write produced for a
\* container returns a manifest equal to the container's, an
\* extensions_files map equal to the container's, and a reference_audio map
\* equal to the container's with each key replaced by its basename.
C5_ArchiveRoundTrip ==
    (container # Unset /\ writeRes.kind = "ok" /\ readRes # Unset) =>
        /\ readRes.kind = "VoxFile"
        /\ PyEq(readRes.file.manifest, container.manifest)
        /\ MapEq(readRes.file.extensions_files, container.extensions_files)
        /\ MapEq(readRes.file.reference_audio, BasenameKeys(container.reference_audio))

\* the error the three conditions name for the file at the path, taken in
\* their order, or "none" when none applies
NamedReadError(file) ==
    IF file.kind # "zip" THEN "InvalidArchive"
    ELSE IF \A i \in 1..Len(file.entries) : file.entries[i].name # ManifestPath
         THEN "ManifestNotFound"
    ELSE LET data == zip_read(file.entries, ManifestPath) IN
         IF data.t # "utf8" THEN "InvalidManifest"
         ELSE IF data.v.t = "garbage" THEN "InvalidManifest"
         ELSE IF from_json(data.v) = Error THEN "InvalidManifest"
         ELSE "none"

\* C6: read fails with InvalidArchive when the path cannot be opened as a ZIP
\* archive, with ManifestNotFound when the archive has no entry named exactly
\* manifest.json, and with InvalidManifest when that entry is not UTF-8, not
\* JSON or not decodable; the first condition that applies decides.
C6_ReadErrorOrder ==
    (readRes # Unset /\ NamedReadError(disk) # "none")
        => readRes = Failure(NamedReadError(disk))

\* a read of an archive that lacks manifest.json at its root although it
\* holds other entries, one of them a manifest.json in a directory
C6_Witness ==
    /\ readRes # Unset
    /\ readRes.kind = "ManifestNotFound"
    /\ disk.kind = "zip"
    /\ \E i \in 1..Len(disk.entries) : PathName(disk.entries[i].name) = ManifestPath

\* a read of an archive whose manifest.json is JSON that does not decode
C6_UndecodableWitness ==
    /\ readRes # Unset
    /\ readRes.kind = "InvalidManifest"
    /\ InArchive(disk.entries, ManifestPath)
    /\ zip_read(disk.entries, ManifestPath).t = "utf8"
    /\ zip_read(disk.entries, ManifestPath).v # JGarbage

\* the manifest read from an archive whose manifest.json decodes
ManifestOf(file) == read_manifest(file.entries).file

Decodes(file) == file.kind = "zip" /\ read_manifest(file.entries).kind = "ok"

\* the file values the manifest lists in reference_audio, in order
ListedFiles(m) ==
    IF Truthy(m.v.reference_audio)
    THEN [i \in 1..Len(m.v.reference_audio.v) |-> m.v.reference_audio.v[i].v.file]
    ELSE <<>>

IsPath(x) == x.t = "str" /\ x.v # <<>>
ListedAndStored(file, x) == IsPath(x) /\ InArchive(file.entries, x.v)
ListedNotStored(file, x) == IsPath(x) /\ ~InArchive(file.entries, x.v)

\* the manifest without the reference_audio items whose path has no entry
WithoutMissing(file, m) ==
    LET Keep(item) == ~ListedNotStored(file, item.v.file) IN
    IF Truthy(m.v.reference_audio)
    THEN [m EXCEPT !.v.reference_audio = PyList(SelectSeq(m.v.reference_audio.v, Keep))]
    ELSE m

\* the items of the reference_audio map that read returned
ReturnedAudio ==
    IF readRes.file.reference_audio = None THEN <<>> ELSE readRes.file.reference_audio.v

ValueOf(items, name) == items[CHOOSE i \in 1..Len(items) : items[i][1] = name][2]

ListedBasenames(file, files) ==
    { PathName(files[i].v) : i \in { k \in 1..Len(files) : ListedAndStored(file, files[k]) } }

ScannedEntry(name) == StartsWith(name, ReferenceDir) /\ ~is_dir(name)

ItemsOf(m) == IF m = None THEN <<>> ELSE m.v

Count(s, x) == Cardinality({ i \in 1..Len(s) : s[i] = x })

\* the entries the layout prescribes for a container
LayoutOf(vox_file) ==
    <<Entry(ManifestPath, Utf8(to_json(vox_file.manifest)))>>
    \o [i \in 1..Len(ItemsOf(vox_file.reference_audio)) |->
           Entry(ReferenceDir \o ItemsOf(vox_file.reference_audio)[i][1],
                 ItemsOf(vox_file.reference_audio)[i][2])]
    \o [i \in 1..Len(ItemsOf(vox_file.extensions_files)) |->
           Entry(ItemsOf(vox_file.extensions_files)[i][1],
                 ItemsOf(vox_file.extensions_files)[i][2])]

\* C13 (as claimed): the archive a successful write leaves holds the encoded
\* manifest as manifest.json, each (filename, bytes) of reference_audio as
\* reference/<filename>, each (path, bytes) of extensions_files as <path>
\* unchanged, and no other entry.
C13_WriterLayout ==
    (container # Unset /\ writeRes.kind = "ok") =>
        /\ Len(disk.entries) = Len(LayoutOf(container))
        /\ \A i \in 1..Len(disk.entries) :
              Count(disk.entries, disk.entries[i])
                  = Count(LayoutOf(container), disk.entries[i])

\* VoxWriter.write step by step: the archive is closed before the check, and
\* nothing is written to it afterwards
ClosedBeforeCheck(log) ==
    \A i \in 1..Len(log) :
       log[i] = "verify_zip_format" =>
           \E k \in 1..(i - 1) :
              /\ log[k] = "close"
              /\ \A j \in (k + 1)..Len(log) : log[j] = "verify_zip_format"

\* C14: write checks the file only after it has closed the archive; a write
\* that returns has made the check and leaves a file that starts with the
\* local file header signature 50 4B 03 04; when the file the check finds
\* does not start with it, write raises WriteError.
C14_IntegrityCheck ==
    writeRes # Unset =>
        /\ ClosedBeforeCheck(writeLog)
        /\ writeRes.kind = "ok" =>
              /\ writeLog # <<>> /\ writeLog[Len(writeLog)] = "verify_zip_format"
              /\ FirstFourBytes(disk) = <<"50", "4B", "03", "04">>
        /\ (/\ writeLog # <<>> /\ writeLog[Len(writeLog)] = "verify_zip_format"
            /\ FirstFourBytes(disk) # <<"50", "4B", "03", "04">>)
           => writeRes.kind = "WriteError"

\* a write of a container with assets that returned
C14_Witness ==
    /\ writeRes # Unset
    /\ writeRes.kind = "ok"
    /\ Len(writeLog) = 6
    /\ FirstFourBytes(disk) = LocalHeaderSignature

\* a write whose check found a file that is no archive
C14_MismatchWitness ==
    /\ writeRes # Unset
    /\ writeRes.kind = "WriteError"
    /\ writeLog # <<>> /\ writeLog[Len(writeLog)] = "verify_zip_format"
    /\ FirstFourBytes(disk) # LocalHeaderSignature

--------------------------------------------------------------------------
(* Properties of the single validation rules.                              *)

\* the errors of a result that name the given field
ErrorsOn(res, field) ==
    LET Named(error) == error.field = field IN SelectSeq(res.errors, Named)

\* no rule before voice.description in the rule order is violated
DescriptionRuleReached(m) ==
    /\ blank_or_empty(m.v.vox_version) = "no"
    /\ is_valid_uuid_v4(m.v.id) = "yes"
    /\ is_valid_iso8601(m.v.created) = "yes"
    /\ blank_or_empty(m.v.voice.v.name) = "no"

\* what the description rule reports for a description, by the length of
\* the description without its leading and trailing whitespace
DescriptionErrors(description) ==
    LET n == Len(Strip(description)) IN
    IF n = 0 THEN <<Err("EmptyRequiredField", "voice.description", -1)>>
    ELSE IF n <= 9 THEN <<Err("DescriptionTooShort", "voice.description", -1)>>
    ELSE <<>>

\* C15: the description rule reports EmptyRequiredField alone when the
\* trimmed description has length 0, DescriptionTooShort alone when it has
\* length 1 to 9, and nothing when it has length 10 or more: in permissive
\* mode always, in strict mode when no earlier rule is violated.
C15_DescriptionBoundaries ==
    /\ permRes # Unset =>
          ErrorsOn(permRes, "voice.description")
              = DescriptionErrors(manifest.v.voice.v.description.v)
    /\ (strictRes # Unset /\ DescriptionRuleReached(manifest)) =>
          ErrorsOn(strictRes, "voice.description")
              = DescriptionErrors(manifest.v.voice.v.description.v)

\* a permissive run on a description of 11 characters, 9 without the
\* surrounding whitespace, reported as too short
C15_Witness ==
    /\ permRes # Unset
    /\ Len(manifest.v.voice.v.description.v) = 11
    /\ Len(Strip(manifest.v.voice.v.description.v)) = 9
    /\ ErrorsOn(permRes, "voice.description")
          = <<Err("DescriptionTooShort", "voice.description", -1)>>

\* a permissive run on a description of 11 characters, 10 without the
\* trailing newline, not reported
C15_AcceptedWitness ==
    /\ permRes # Unset
    /\ Len(manifest.v.voice.v.description.v) = 11
    /\ Len(Strip(manifest.v.voice.v.description.v)) = 10
    /\ ErrorsOn(permRes, "voice.description") = <<>>

IsPair(a) == a.t = "list" /\ Len(a.v) = 2 /\ a.v[1].t = "int" /\ a.v[2].t = "int"

UpperChar(c) ==
    IF \E i \in 1..Len(LowerLetters) : LowerLetters[i] = c
    THEN UpperLetters[CHOOSE i \in 1..Len(LowerLetters) : LowerLetters[i] = c]
    ELSE c

Upper(s) == [i \in 1..Len(s) |-> UpperChar(s[i])]

\* C17 (as claimed): an id is accepted if and only if its lowercased form is
\* exactly an 8-4-4-4-12 hex string with version digit 4 and variant digit
\* 8, 9, a or b; its upper-case and lower-case spellings get its verdict.
C17_UuidExactShape ==
    permRes # Unset =>
        /\ ErrorsOn(permRes, "id") = <<>> <=> UuidV4Shaped(manifest.v.id.v)
        /\ is_valid_uuid_v4(PyStr(Lower(manifest.v.id.v))) = is_valid_uuid_v4(manifest.v.id)
        /\ is_valid_uuid_v4(PyStr(Upper(manifest.v.id.v))) = is_valid_uuid_v4(manifest.v.id)

\* C18 (as claimed): created is accepted if and only if it is exactly of
\* the shape DDDD-DD-DDTDD:DD:DDZ, 20 characters; any other string is
\* reported as InvalidTimestamp.
C18_TimestampExactShape ==
    permRes # Unset =>
        IF TimestampShaped(manifest.v.created.v)
        THEN ErrorsOn(permRes, "created") = <<>>
        ELSE ErrorsOn(permRes, "created") = <<Err("InvalidTimestamp", "created", -1)>>

\* C19 (as claimed): a failing strict validation reports the violation of
\* the earliest violated rule in the rule order and of no later rule.
C19_StrictReportsEarliestOnly ==
    (strictRes # Unset /\ RuleViolations(manifest) # <<>>) =>
        strictRes.errors = <<RuleViolations(manifest)[1]>>

--------------------------------------------------------------------------
(* The validation of decoded manifests: a manifest.json text is decoded    *)
(* and the manifest, whatever the types of its values, is validated.       *)

VersionTexts == { JString(<<"1">>), JNumber(1), JNull }
IdTexts == { JString(ValidId), JNumber(7) }
CreatedTexts == { JString(ValidCreated), JNumber(2026) }
NameTexts == { JString(<<"N">>), JBool(TRUE) }
DescriptionTexts == { JString(Rep("x", 10)), JArray(<<JString(<<"x">>)>>), JNumber(0) }
AgeRangeTexts ==
    { JNull, JArray(<<JNumber(25), JNumber(35)>>), JNumber(30), JString(<<"a", "b">>),
      JArray(<<JString(<<"a">>), JNumber(1)>>), JArray(<<JNull, JNumber(1)>>),
      JObject(<< <<"a", JNumber(1)>>, <<"b", JNumber(2)>> >>) }
GenderTexts == { JNull, JString(<<"m", "a", "l", "e">>), JNumber(5), JArray(<<>>) }
FileTexts == { JString(<<"a", ".", "w", "a", "v">>), JNumber(5), JNumber(0) }

\* a manifest.json text that satisfies every rule of the validator, with
\* further members at the top level and in its voice section
ValidText(top, nested) ==
    JObject(<< <<"vox_version", JString(<<"1">>)>>, <<"id", JString(ValidId)>>,
               <<"created", JString(ValidCreated)>>,
               <<"voice", JObject(<< <<"name", JString(<<"N">>)>>,
                                     <<"description", JString(Rep("x", 10))>> >>
                                  \o nested)>> >> \o top)

DecodedTexts ==
    { JObject(<< <<"vox_version", ver>>, <<"id", id>>, <<"created", cr>>,
                 <<"voice", JObject(<< <<"name", nm>>, <<"description", ds>>,
                                       <<"age_range", age>>, <<"gender", g>> >>)>>,
                 <<"reference_audio", JArray(<<JObject(<< <<"file", f>> >>)>>)>> >>) :
        ver \in VersionTexts, id \in IdTexts, cr \in CreatedTexts, nm \in NameTexts,
        ds \in DescriptionTexts, age \in AgeRangeTexts, g \in GenderTexts,
        f \in FileTexts }
    \cup { JGarbage, JObject(<<>>),
           JObject(<< <<"voice", JObject(<< <<"zz", JNumber(1)>> >>)>> >>) }
    \cup { ValidText(top, nested) :
             top \in {<<>>, << <<"x_future", JNumber(1)>> >>},
             nested \in {<<>>, << <<"zz", JNumber(1)>> >>} }

InitDecoded ==
    /\ j0 \in DecodedTexts
    /\ manifest = Unset /\ strictRes = Unset /\ permRes = Unset
    /\ m0 = Unset /\ m1 = Unset /\ j1 = Unset /\ m2 = Unset /\ jAlt = Unset
    /\ disk = Unset /\ container = Unset /\ writeRes = Unset /\ readRes = Unset
    /\ writeLog = <<>> /\ earlier = <<>> /\ readLog = <<>>
    /\ exitCode = Unset

\* VoxManifest.from_json(text)
DecodeManifest ==
    /\ manifest = Unset
    /\ manifest' = from_json(j0)
    /\ UNCHANGED <<strictRes, permRes, codecVars, archiveVars, exitCode>>

NextDecoded == DecodeManifest \/ ValidateStrict \/ ValidatePermissive

SpecDecoded == InitDecoded /\ [][NextDecoded]_vars

\* C20 (as claimed): validating a manifest that from_json produced either
\* returns or raises ValidationError or MultipleValidationErrors, in either
\* mode; it raises no other exception.
C20_OnlyValidationErrors ==
    /\ strictRes # Unset => strictRes.kind # "crash"
    /\ permRes # Unset => permRes.kind # "crash"

--------------------------------------------------------------------------
(* Decoding of manifest.json texts found in archives.                      *)

\* the text of the manifest.json that read uses, when the archive has one
\* and it is UTF-8
ManifestText(file) == zip_read(file.entries, ManifestPath).v

HasManifestText(file) ==
    /\ file.kind = "zip"
    /\ InArchive(file.entries, ManifestPath)
    /\ zip_read(file.entries, ManifestPath).t = "utf8"

HasMember(text, k) ==
    text.t = "object" /\ \E i \in 1..Len(text.v) : text.v[i][1] = k

\* the value of the last member written under the key
Member(text, k) ==
    text.v[CHOOSE i \in 1..Len(text.v) :
              /\ text.v[i][1] = k
              /\ \A n \in (i + 1)..Len(text.v) : text.v[n][1] # k][2]

\* a member of the object whose key is no field of the class
UnknownIn(obj, cls) ==
    obj.t = "object" /\ \E i \in 1..Len(obj.v) : obj.v[i][1] \notin Range(Fields(cls))

\* the manifest text has a top-level member that is no field of VoxManifest
UnknownTopLevel(text) == UnknownIn(text, "VoxManifest")

\* the manifest text has an unknown member inside voice, prosody, a
\* reference_audio entry, character, character.source or provenance
UnknownNested(text) ==
    /\ text.t = "object"
    /\ \/ \E s \in { <<"voice", "Voice">>, <<"prosody", "Prosody">>,
                      <<"character", "Character">>, <<"provenance", "Provenance">> } :
              HasMember(text, s[1]) /\ UnknownIn(Member(text, s[1]), s[2])
       \/ /\ HasMember(text, "reference_audio")
          /\ Member(text, "reference_audio").t = "array"
          /\ \E i \in 1..Len(Member(text, "reference_audio").v) :
                UnknownIn(Member(text, "reference_audio").v[i], "ReferenceAudio")
       \/ /\ HasMember(text, "character")
          /\ HasMember(Member(text, "character"), "source")
          /\ UnknownIn(Member(Member(text, "character"), "source"), "Source")

\* C21 (as claimed): when the manifest.json text has a top-level `voice`
\* member whose value is not a JSON object (a string, number, boolean, null
\* or array, empty or not), from_json raises and read reports
\* InvalidManifest.
C21_NonObjectVoiceFails ==
    (readRes # Unset /\ HasManifestText(disk)
     /\ HasMember(ManifestText(disk), "voice")
     /\ Member(ManifestText(disk), "voice").t # "object")
        => /\ from_json(ManifestText(disk)) = Error
           /\ readRes.kind = "InvalidManifest"

\* C22 (as claimed): a manifest.json with an unknown field is decoded, and
\* validating the manifest in strict mode raises, while validating it in
\* permissive mode returns when no rule is violated.
C22_StrictRejectsUnknownFields ==
    (manifest # Unset /\ (UnknownTopLevel(j0) \/ UnknownNested(j0))) =>
        /\ manifest.t = "VoxManifest"
        /\ strictRes # Unset =>
              strictRes.kind \in {"ValidationError", "MultipleValidationErrors"}
        /\ (permRes # Unset /\ RuleViolations(manifest) = <<>>) =>
              permRes.kind = "returned"

\* the manifest text without its members that are no field of VoxManifest
WithoutUnknown(text) ==
    JObject(SelectSeq(text.v, LAMBDA pair : pair[1] \in Range(Fields("VoxManifest"))))

\* the archive with the text of the manifest.json that read uses replaced
WithManifestText(file, text) ==
    Zip([i \in 1..Len(file.entries) |->
            IF file.entries[i] = Entry(ManifestPath, Utf8(ManifestText(file)))
            THEN Entry(ManifestPath, Utf8(text)) ELSE file.entries[i]])

C24_NestedWitness ==
    /\ readRes # Unset /\ HasManifestText(disk)
    /\ HasMember(ManifestText(disk), "character")
    /\ UnknownNested(ManifestText(disk))
    /\ readRes.kind = "InvalidManifest"

--------------------------------------------------------------------------
(* The two modes of the validator compared.                                *)

\* C27: for every manifest, validate(manifest, strict=True) raises if and
\* only if validate(manifest, strict=False) raises, and the first violation
\* the permissive call collects is the first one the strict call reports.
C27_ModesAcceptSame ==
    (strictRes # Unset /\ permRes # Unset) =>
        /\ (strictRes.kind = "returned") <=> (permRes.kind = "returned")
        /\ permRes.kind = "MultipleValidationErrors" =>
              /\ strictRes.errors # <<>>
              /\ strictRes.errors[1] = permRes.errors[1]

\* a manifest violating a required and an optional rule, validated in both
\* modes, for which the permissive call collects more than the strict one
C27_Witness ==
    /\ strictRes # Unset /\ permRes # Unset
    /\ permRes.kind = "MultipleValidationErrors"
    /\ Len(permRes.errors) > Len(strictRes.errors)
    /\ strictRes.errors[1] = permRes.errors[1]

\* a manifest both modes accept
C27_AcceptedWitness ==
    /\ strictRes # Unset /\ permRes # Unset
    /\ strictRes.kind = "returned" /\ permRes.kind = "returned"

--------------------------------------------------------------------------
(* The archive handle of the reader, and the errors of read.               *)

\* C23: every read that got an archive handle has closed it when it
\* returns or raises: the handle is opened once, closed once, and closing
\* is the last step, on the success path and on the paths of
\* ManifestNotFound, InvalidManifest and of an error raised while the
\* assets are collected; a read that got no handle takes no step on one.
C23_ReaderClosesHandle ==
    readRes # Unset =>
        IF readRes.kind = "InvalidArchive" THEN readLog = <<>>
        ELSE /\ Count(readLog, "open") = 1 /\ Count(readLog, "close") = 1
             /\ readLog[1] = "open" /\ readLog[Len(readLog)] = "close"

\* a read that raised while collecting the reference audio, after its
\* manifest was decoded
C23_Witness ==
    /\ readRes # Unset /\ readRes.kind = "crash"
    /\ readLog = <<"open", "read_manifest", "read_reference_audio", "close">>

\* C25 (as claimed): a read that fails raises InvalidArchive,
\* ManifestNotFound or InvalidManifest, whatever the entries of the archive
\* and the values the decoded manifest holds; no other error leaves read.
C25_OnlyReadErrors ==
    readRes # Unset =>
        readRes.kind \in {"VoxFile", "InvalidArchive", "ManifestNotFound", "InvalidManifest"}

--------------------------------------------------------------------------
(* Writes over an archive at the path.                                     *)

\* the archive the write before the last one left at the path
Before == written_archive(earlier[Len(earlier)])

\* C26 (as claimed): a write that fails with WriteError has no partial
\* effect: afterwards the file at the path is as it was before the call or
\* cannot be read as a VOX archive, and an archive that could be read
\* before the call is still there.
C26_FailedWriteNoPartialEffect ==
    (earlier # <<>> /\ writeRes.kind = "WriteError") =>
        /\ disk = Before \/ read(disk).kind # "VoxFile"
        /\ read(Before).kind = "VoxFile" => disk = Before

\* C28 (as claimed): after write(c, path) returned, the manifest.json entry
\* that read uses holds the encoding of c.manifest, and read returns the
\* manifest that text decodes to, whatever the keys of c.reference_audio
\* and c.extensions_files.
C28_ManifestNotShadowed ==
    (container # Unset /\ writeRes.kind = "ok" /\ readRes # Unset) =>
        /\ zip_read(disk.entries, ManifestPath) = Utf8(to_json(container.manifest))
        /\ readRes.kind = "VoxFile"
        /\ readRes.file.manifest = from_json(to_json(container.manifest))

\* C29: after a write returned and a later write to the same path returned,
\* the path holds the archive of the later container only, and read
\* returns what it returns after that write alone on a path without a
\* file.
C29_WriteReplacesWhole ==
    (earlier # <<>> /\ writeRes.kind = "ok") =>
        /\ disk = write(container, "file", NoFile).file
        /\ readRes # Unset => readRes = read(write(container, "file", NoFile).file)

\* a container with reference audio and extension files was written, a
\* container without assets was written over it, and the read returns no
\* assets
C29_Witness ==
    /\ earlier # <<>> /\ writeRes.kind = "ok" /\ readRes # Unset
    /\ NonEmptyMap(earlier[1].reference_audio)
    /\ NonEmptyMap(earlier[1].extensions_files)
    /\ earlier[1].extensions_files.v[1][1] = EmbeddingV
    /\ container.reference_audio = None /\ container.extensions_files = None
    /\ readRes.kind = "VoxFile"
    /\ readRes.file.reference_audio = None /\ readRes.file.extensions_files = None

--------------------------------------------------------------------------
(* The command `vox create` (vox_cli/create.py).                           *)

\* the values of --gender: click.Choice hands the command the choice as
\* listed, whatever the case it was typed in
GenderChoices ==
    { <<"m", "a", "l", "e">>, <<"f", "e", "m", "a", "l", "e">>,
      <<"n", "o", "n", "b", "i", "n", "a", "r", "y">>,
      <<"n", "e", "u", "t", "r", "a", "l">> }

VoxVersion == <<"0", ".", "1", ".", "0">>

\* create_command: the manifest it builds, what its write leaves at the
\* output path, the outcome of the validation that follows a write that
\* returned, and the exit status
create_command(name, description, language, gender, voice_id, created, destination, before) ==
    LET voice == Voice(PyStr(name), PyStr(description), language,
                       IF Truthy(gender) THEN PyStr(Lower(gender.v)) ELSE None,
                       None, None)
        made == VoxManifest(PyStr(VoxVersion), PyStr(voice_id), PyStr(created), voice,
                            None, None, None, None, None)
        vox_file == VoxFile(made, None, None)
        written == write(vox_file, destination, before)
        validation == IF written.res.kind = "ok" THEN validate(made, FALSE) ELSE Unset
    IN  [manifest |-> made, vox_file |-> vox_file, written |-> written,
         validation |-> validation,
         exit |-> IF written.res.kind = "ok" /\ validation.kind = "returned" THEN 0 ELSE 1]

\* option values the command accepts
NameOptions == { <<>>, <<"N">> }
DescriptionOptions == { <<>>, Rep("x", MINIMUM_DESCRIPTION_LENGTH - 1), Rep("x", MINIMUM_DESCRIPTION_LENGTH) }
LanguageOptions == { None, PyStr(<<"e", "n">>) }
GenderOptions == { None } \cup { PyStr(g) : g \in GenderChoices }

\* str(uuid.uuid4()) and the UTC time formatted with %Y-%m-%dT%H:%M:%SZ
GeneratedIds == { Lower(ValidId) }
GeneratedTimestamps == { ValidCreated }

InitCreate ==
    /\ disk \in DiskInputs
    /\ container = Unset /\ writeRes = Unset /\ readRes = Unset
    /\ writeLog = <<>> /\ earlier = <<>> /\ readLog = <<>>
    /\ exitCode = Unset
    /\ manifest = Unset /\ strictRes = Unset /\ permRes = Unset
    /\ m0 = Unset /\ j0 = Unset /\ m1 = Unset /\ j1 = Unset /\ m2 = Unset
    /\ jAlt = Unset

\* vox create --name .. --description .. [--language ..] [--gender ..] --output ..
CreateCommand(name, description, language, gender, voice_id, created, destination) ==
    LET run == create_command(name, description, language, gender, voice_id, created,
                              destination, disk) IN
    /\ exitCode = Unset
    /\ manifest' = run.manifest
    /\ container' = run.vox_file
    /\ disk' = run.written.file
    /\ writeLog' = run.written.log
    /\ writeRes' = run.written.res
    /\ permRes' = run.validation
    /\ exitCode' = [code |-> run.exit]
    /\ UNCHANGED <<strictRes, codecVars, earlier, readRes, readLog>>

NextCreate ==
    \E name \in NameOptions, description \in DescriptionOptions,
       language \in LanguageOptions, gender \in GenderOptions,
       voice_id \in GeneratedIds, created \in GeneratedTimestamps,
       destination \in Destinations :
        CreateCommand(name, description, language, gender, voice_id, created, destination)

SpecCreate == InitCreate /\ [][NextCreate]_vars

\* C30 (as claimed): whatever the option values, the file create_command
\* wrote to the output path holds a manifest that permissive validation
\* accepts.
C30_CreatedFileIsValid ==
    (exitCode # Unset /\ writeRes.kind = "ok") =>
        /\ read(disk).kind = "VoxFile"
        /\ validate(read(disk).file.manifest, FALSE).kind = "returned"

====
